---- MODULE Spec2Model ----
(***************************************************************************)
(* printree: rendering of a uniform tree (leaf / parent nodes) as an       *)
(* ASCII-art tree.  Strings are sequences of UTF-16 code units, arrays are *)
(* tagged sequences, objects are records.                                  *)
(***************************************************************************)
EXTENDS Integers, Sequences, FiniteSets, TLC

VARIABLES stack, domain, input, options, output, pc, calls, walk

vars == <<stack, domain, input, options, output, pc, calls, walk>>

(***************************************************************************)
(* Bounds of the model.                                                    *)
(***************************************************************************)
MaxNodes == 4
MaxDomain == 3

\* the deepest nesting of calls that a walk of transform is followed to
MaxDepth == 4

(***************************************************************************)
(* JavaScript values.                                                      *)
(***************************************************************************)
Undefined == [kind |-> "undefined"]

IsUndefined(value) == "kind" \in DOMAIN value /\ value.kind = "undefined"

Array(items) == [array |-> items]

EmptyObject == [kind |-> "object"]

\* a value whose type is only known at run time carries it: strings met
\* as a property of an unknown object are tagged, objects are records
Str(chars) == [type |-> "string", chars |-> chars]

typeof(value) ==
    IF "type" \in DOMAIN value THEN value.type
    ELSE IF "kind" \in DOMAIN value /\ value.kind = "undefined" THEN "undefined"
    ELSE "object"

\* Number to string, in decimal
RECURSIVE NumberToString(_)
NumberToString(n) == IF n < 10 THEN <<48 + n>> ELSE NumberToString(n \div 10) \o <<48 + (n % 10)>>

\* code units
NL == 10
SP == 32

\* Array.prototype.join on an array of strings
RECURSIVE join(_, _)
join(strings, separator) ==
    IF Len(strings) = 0 THEN <<>>
    ELSE IF Len(strings) = 1 THEN strings[1]
    ELSE strings[1] \o separator \o join(Tail(strings), separator)

\* the concatenation of a sequence of sequences
RECURSIVE Flatten(_)
Flatten(sequences) ==
    IF Len(sequences) = 0 THEN <<>> ELSE sequences[1] \o Flatten(Tail(sequences))

\* String.prototype.trimEnd: WhiteSpace and LineTerminator code units
WhiteSpace ==
    { 9, 10, 11, 12, 13, 32, 160, 5760, 8232, 8233, 8239, 8287, 12288, 65279 }
    \cup (8192..8202)

RECURSIVE trimEnd(_)
trimEnd(string) ==
    IF Len(string) > 0 /\ string[Len(string)] \in WhiteSpace
    THEN trimEnd(SubSeq(string, 1, Len(string) - 1))
    ELSE string

(***************************************************************************)
(* render.ts                                                               *)
(***************************************************************************)
DEFAULT_GLYPHS ==
    [ corner   |-> <<9492, 9472, SP>>,
      branch   |-> <<9500, 9472, SP>>,
      vertical |-> <<9474, SP, SP>>,
      indent   |-> <<SP, SP, SP>> ]

leaf(text) == [text |-> text]

parent(text, children) == [text |-> text, children |-> Array(children)]

\* a node without any child taken for a leaf
isLeafOrEmpty(node) ==
    \/ "children" \notin DOMAIN node
    \/ IsUndefined(node.children)
    \/ Len(node.children.array) = 0

isLeaf(node) == "children" \notin DOMAIN node \/ IsUndefined(node.children)

isParent(node) == ~("children" \notin DOMAIN node \/ IsUndefined(node.children))

isArray(value) == "array" \in DOMAIN value

nodePrefixHardCoded(glyphs, prefix, isLast, isRoot) ==
    IF isRoot THEN <<>>
    ELSE prefix \o (IF isLast THEN <<9492, 9472, SP>> ELSE <<9500, 9472, SP>>)

nodePrefixOf(glyphs, prefix, isLast, isRoot) ==
    IF isRoot THEN <<>>
    ELSE prefix \o (IF isLast THEN glyphs.corner ELSE glyphs.branch)

\* the children of the root indented as those of any other node
childPrefixOfRootToo(glyphs, prefix, isLast, isRoot) ==
    prefix \o (IF isLast THEN glyphs.indent ELSE glyphs.vertical)

childPrefixSwapped(glyphs, prefix, isLast, isRoot) ==
    IF isRoot THEN <<>>
    ELSE prefix \o (IF isLast THEN glyphs.vertical ELSE glyphs.indent)

childPrefixOf(glyphs, prefix, isLast, isRoot) ==
    IF isRoot THEN <<>>
    ELSE prefix \o (IF isLast THEN glyphs.indent ELSE glyphs.vertical)

\* sequences are indexed from 1, arrays from 0: the array index of the
\* element at position `index` is index - 1
isLastIndexFirst(index, length) == index = 1

isLastIndex(index, length) == index = length

childrenStrAlways(rendered) == <<NL>> \o join(rendered, <<NL>>)

childrenStrOf(rendered) ==
    IF Len(rendered) > 0 THEN <<NL>> \o join(rendered, <<NL>>) ELSE <<>>

\* the text with the prefix put again after each of its newlines
RECURSIVE Reindented(_, _)
Reindented(text, prefix) ==
    IF Len(text) = 0 THEN <<>>
    ELSE IF Head(text) = NL THEN <<NL>> \o prefix \o Reindented(Tail(text), prefix)
    ELSE <<Head(text)>> \o Reindented(Tail(text), prefix)

\* a rendering that keeps the lines of a text under one another
RECURSIVE renderNodeReindenting(_, _, _, _, _)
renderNodeReindenting(node, glyphs, prefix, isLast, isRoot) ==
    LET nodePrefix  == nodePrefixOf(glyphs, prefix, isLast, isRoot)
        childPrefix == childPrefixOf(glyphs, prefix, isLast, isRoot)
        text == Reindented(node.text, childPrefix)
    IN  IF isLeaf(node) THEN nodePrefix \o text
        ELSE LET children == node.children.array
                 childrenStr ==
                     childrenStrOf([index \in 1..Len(children) |->
                                       renderNodeReindenting(children[index], glyphs, childPrefix,
                                                  isLastIndex(index, Len(children)), FALSE)])
             IN  nodePrefix \o text \o childrenStr

RECURSIVE renderNode(_, _, _, _, _)
renderNode(node, glyphs, prefix, isLast, isRoot) ==
    LET nodePrefix  == nodePrefixOf(glyphs, prefix, isLast, isRoot)
        childPrefix == childPrefixOf(glyphs, prefix, isLast, isRoot)
    IN  IF isLeaf(node) THEN nodePrefix \o node.text
        ELSE LET children == node.children.array
                 childrenStr ==
                     childrenStrOf([index \in 1..Len(children) |->
                                       renderNode(children[index], glyphs, childPrefix,
                                                  isLastIndex(index, Len(children)), FALSE)])
             IN  nodePrefix \o node.text \o childrenStr

glyphsOrBlank(opts) ==
    IF IsUndefined(opts) \/ "glyphs" \notin DOMAIN opts THEN DEFAULT_GLYPHS
    ELSE IF IsUndefined(opts.glyphs)
    THEN [corner |-> <<>>, branch |-> <<>>, vertical |-> <<>>, indent |-> <<>>]
    ELSE opts.glyphs

\* glyph sets validated: one with an empty string is not accepted and the
\* default set is used in its place
glyphsOfValidated(opts) ==
    LET given == IF IsUndefined(opts) THEN EmptyObject ELSE opts
    IN  IF /\ "glyphs" \in DOMAIN given
           /\ ~IsUndefined(given.glyphs)
           /\ \A glyph \in {"corner", "branch", "vertical", "indent"} :
                 Len(given.glyphs[glyph]) > 0
        THEN given.glyphs
        ELSE DEFAULT_GLYPHS

glyphsOf(opts) ==
    LET given == IF IsUndefined(opts) THEN EmptyObject ELSE opts
    IN  IF "glyphs" \in DOMAIN given /\ ~IsUndefined(given.glyphs)
        THEN given.glyphs
        ELSE DEFAULT_GLYPHS

renderArrayFirstAsRoot(nodes, glyphs) ==
    join([index \in 1..Len(nodes) |->
             renderNode(nodes[index], glyphs, <<>>, isLastIndex(index, Len(nodes)), index = 1)],
         <<NL>>)

renderArrayDangling(nodes, glyphs) ==
    IF Len(nodes) = 0 THEN glyphs.corner
    ELSE join([index \in 1..Len(nodes) |->
                  renderNode(nodes[index], glyphs, <<>>, isLastIndex(index, Len(nodes)), FALSE)],
              <<NL>>)

renderArrayTrimmed(nodes, glyphs) ==
    trimEnd(join([index \in 1..Len(nodes) |->
                     renderNode(nodes[index], glyphs, <<>>,
                                isLastIndex(index, Len(nodes)), FALSE)],
                 <<NL>>))

renderArray(nodes, glyphs) ==
    join([index \in 1..Len(nodes) |->
             renderNode(nodes[index], glyphs, <<>>, isLastIndex(index, Len(nodes)), FALSE)],
         <<NL>>)

renderRootAsElement(node, glyphs) == renderNode(node, glyphs, <<>>, TRUE, FALSE)

renderRootTrimmed(node, glyphs) == trimEnd(renderNode(node, glyphs, <<>>, TRUE, TRUE))

renderRoot(node, glyphs) == renderNode(node, glyphs, <<>>, TRUE, TRUE)

\* a rendering that goes on from the one before it, kept between calls
renderAppending(in, opts) ==
    LET glyphs == glyphsOf(opts)
    IN  output \o (IF isArray(in)
                   THEN renderArray(in.array, glyphs)
                   ELSE renderRoot(in, glyphs))

render(in, opts) ==
    LET glyphs == glyphsOf(opts)
    IN  IF isArray(in)
        THEN renderArray(in.array, glyphs)
        ELSE renderRoot(in, glyphs)

(***************************************************************************)
(* transform                                                               *)
(***************************************************************************)
isObject(value) == typeof(value) = "object"

isNamed(child) ==
    isObject(child) /\ "name" \in DOMAIN child /\ typeof(child.name) = "string"

isNamedChild(child) == isNamed(child) /\ "node" \in DOMAIN child

\* a group told by its nodes only when it has no node beside them
isNamedChildrenWithoutNode(child) ==
    isNamed(child) /\ "nodes" \in DOMAIN child /\ isArray(child.nodes)
                   /\ "node" \notin DOMAIN child

isNamedChildren(child) ==
    isNamed(child) /\ "nodes" \in DOMAIN child /\ isArray(child.nodes)

\* the mapping of the tests: getChildren reads the children property
getChildren(node) == IF "children" \in DOMAIN node THEN node.children ELSE Undefined

\* the mapping of the tests: "#<index> <name>: <kind>[<number of children>]"
toText(node, context) ==
    <<35>> \o NumberToString(context.index) \o <<SP>>
    \o (IF IsUndefined(context.name) THEN <<>> ELSE context.name.chars \o <<58, SP>>)
    \o node.kind
    \o (IF IsUndefined(context.children) THEN <<>>
        ELSE <<91>> \o NumberToString(Len(context.children.array)) \o <<93>>)

\* the descriptors handed over as getChildren returned them
contextForWrapped(index, name, children) ==
    [index |-> index, name |-> name, children |-> children]

contextFor(index, name, children) ==
    [ index    |-> index,
      name     |-> name,
      children |-> IF IsUndefined(children) THEN Undefined
                   ELSE Array([i \in 1..Len(children.array) |->
                                  LET child == children.array[i]
                                  IN  IF isNamedChildren(child) THEN child.nodes
                                      ELSE IF isNamedChild(child) THEN child.node
                                      ELSE child]) ]

RECURSIVE fromNode(_, _, _)

fromNodeListReversed(nodes) ==
    [index \in 1..Len(nodes) |->
        fromNode(nodes[Len(nodes) + 1 - index], Len(nodes) - index, Undefined)]

\* positions counted from one
fromNodeListOneBased(nodes) ==
    [index \in 1..Len(nodes) |-> fromNode(nodes[index], index, Undefined)]

fromNodeList(nodes) ==
    [index \in 1..Len(nodes) |-> fromNode(nodes[index], index - 1, Undefined)]

\* a node whose getChildren returns no child taken for a leaf
fromNodeEmptyIsLeaf(node, index, name) ==
    LET children == getChildren(node)
        context == contextFor(index, name, children)
    IN  IF IsUndefined(children) \/ Len(children.array) = 0
        THEN leaf(toText(node, context))
        ELSE parent(toText(node, context),
                    [i \in 1..Len(children.array) |->
                        LET child == children.array[i]
                        IN  IF isNamedChildren(child)
                            THEN parent(child.name.chars, fromNodeList(child.nodes.array))
                            ELSE IF isNamedChild(child)
                            THEN fromNode(child.node, i - 1, child.name)
                            ELSE fromNode(child, i - 1, Undefined)])

\* the members of a group transformed under the name of their group
fromNodeMembersNamed(node, index, name) ==
    LET children == getChildren(node)
        context == contextFor(index, name, children)
    IN  IF IsUndefined(children)
        THEN leaf(toText(node, context))
        ELSE parent(toText(node, context),
                    [i \in 1..Len(children.array) |->
                        LET child == children.array[i]
                        IN  IF isNamedChildren(child)
                            THEN parent(child.name.chars,
                                        [j \in 1..Len(child.nodes.array) |->
                                            fromNode(child.nodes.array[j], j - 1, child.name)])
                            ELSE IF isNamedChild(child)
                            THEN fromNode(child.node, i - 1, child.name)
                            ELSE fromNode(child, i - 1, Undefined)])

\* a group kept as its name alone, its members left out
fromNodeMembersDropped(node, index, name) ==
    LET children == getChildren(node)
        context == contextFor(index, name, children)
    IN  IF IsUndefined(children)
        THEN leaf(toText(node, context))
        ELSE parent(toText(node, context),
                    [i \in 1..Len(children.array) |->
                        LET child == children.array[i]
                        IN  IF isNamedChildren(child)
                            THEN leaf(child.name.chars)
                            ELSE IF isNamedChild(child)
                            THEN fromNode(child.node, i - 1, child.name)
                            ELSE fromNode(child, i - 1, Undefined)])

\* a named child given a level of its own, as a group is
fromNodeNamedWraps(node, index, name) ==
    LET children == getChildren(node)
        context == contextFor(index, name, children)
    IN  IF IsUndefined(children)
        THEN leaf(toText(node, context))
        ELSE parent(toText(node, context),
                    [i \in 1..Len(children.array) |->
                        LET child == children.array[i]
                        IN  IF isNamedChildren(child)
                            THEN parent(child.name.chars, fromNodeList(child.nodes.array))
                            ELSE IF isNamedChild(child)
                            THEN parent(child.name.chars,
                                        <<fromNode(child.node, 0, Undefined)>>)
                            ELSE fromNode(child, i - 1, Undefined)])

fromNode(node, index, name) ==
    LET children == getChildren(node)
        context == contextFor(index, name, children)
    IN  IF IsUndefined(children)
        THEN leaf(toText(node, context))
        ELSE parent(toText(node, context),
                    [i \in 1..Len(children.array) |->
                        LET child == children.array[i]
                        IN  IF isNamedChildren(child)
                            THEN parent(child.name.chars, fromNodeList(child.nodes.array))
                            ELSE IF isNamedChild(child)
                            THEN fromNode(child.node, i - 1, child.name)
                            ELSE fromNode(child, i - 1, Undefined)])

transform(in) ==
    IF isArray(in) THEN Array(fromNodeList(in.array)) ELSE fromNode(in, 0, Undefined)

\* The calls of the two callbacks that transform makes, in the order in which
\* it makes them, each with its arguments and what it returned.
RECURSIVE callsOfNode(_, _, _)

callsOfList(nodes) ==
    Flatten([index \in 1..Len(nodes) |-> callsOfNode(nodes[index], index - 1, Undefined)])

\* getChildren asked a second time for the context
callsOfNodeAskingTwice(node, index, name) ==
    LET children == getChildren(node)
        context == contextFor(index, name, children)
    IN  <<[fn |-> "getChildren", node |-> node, returned |-> children],
          [fn |-> "getChildren", node |-> node, returned |-> children],
          [fn |-> "toText", node |-> node, context |-> context,
           returned |-> toText(node, context)]>>
        \o (IF IsUndefined(children) THEN <<>>
            ELSE Flatten([i \in 1..Len(children.array) |->
                            LET child == children.array[i]
                            IN  IF isNamedChildren(child)
                                THEN callsOfList(child.nodes.array)
                                ELSE IF isNamedChild(child)
                                THEN callsOfNode(child.node, i - 1, child.name)
                                ELSE callsOfNode(child, i - 1, Undefined)]))

\* the children gone through before the text of their parent is asked for
callsOfNodeChildrenFirst(node, index, name) ==
    LET children == getChildren(node)
        context == contextFor(index, name, children)
    IN  <<[fn |-> "getChildren", node |-> node, returned |-> children]>>
        \o (IF IsUndefined(children) THEN <<>>
            ELSE Flatten([i \in 1..Len(children.array) |->
                            LET child == children.array[i]
                            IN  IF isNamedChildren(child)
                                THEN callsOfList(child.nodes.array)
                                ELSE IF isNamedChild(child)
                                THEN callsOfNode(child.node, i - 1, child.name)
                                ELSE callsOfNode(child, i - 1, Undefined)]))
        \o <<[fn |-> "toText", node |-> node, context |-> context,
              returned |-> toText(node, context)]>>

callsOfNode(node, index, name) ==
    LET children == getChildren(node)
        context == contextFor(index, name, children)
    IN  <<[fn |-> "getChildren", node |-> node, returned |-> children],
          [fn |-> "toText", node |-> node, context |-> context,
           returned |-> toText(node, context)]>>
        \o (IF IsUndefined(children) THEN <<>>
            ELSE Flatten([i \in 1..Len(children.array) |->
                            LET child == children.array[i]
                            IN  IF isNamedChildren(child)
                                THEN callsOfList(child.nodes.array)
                                ELSE IF isNamedChild(child)
                                THEN callsOfNode(child.node, i - 1, child.name)
                                ELSE callsOfNode(child, i - 1, Undefined)]))

callsOf(in) ==
    IF isArray(in) THEN callsOfList(in.array) ELSE callsOfNode(in, 0, Undefined)

(***************************************************************************)
(* format                                                                  *)
(***************************************************************************)
\* the rendering option of format left out of account
formatDefaultOnly(in, opts) == render(transform(in), Undefined)

\* format: { mapping, rendering } are taken from the options, the mapping
\* being the one of getChildren and toText above
format(in, opts) ==
    LET rendering == IF "rendering" \in DOMAIN opts THEN opts.rendering ELSE Undefined
    IN  render(transform(in), rendering)

(***************************************************************************)
(* The earlier format, with getChildren and formatNode.  A labeled child   *)
(* is the pair [label, node].  The context is the record of guide,         *)
(* prefix, isRoot, isLastChild, label and index; the two callbacks, which  *)
(* it also carries in the code, are getChildren above and formatNode here. *)
(***************************************************************************)
isLabeledNode(value) ==
    isArray(value) /\ Len(value.array) = 2 /\ typeof(value.array[1]) = "string"

\* the callback of the caller: the text that toText gives for the node
\* under the label, at the index when there is one and at 0 otherwise
formatNode(node, opts) ==
    toText(node, [index    |-> IF "index" \in DOMAIN opts THEN opts.index ELSE 0,
                  name     |-> opts.label,
                  children |-> opts.children])

\* nodes.map(...): the node, its position and its label, if it has one
entriesOf(nodes) ==
    [index \in 1..Len(nodes) |->
        IF isLabeledNode(nodes[index])
        THEN [node |-> nodes[index].array[2], index |-> index - 1,
              label |-> nodes[index].array[1]]
        ELSE [node |-> nodes[index], index |-> index - 1, label |-> Undefined]]

\* the context that formatNodes makes for the entry at position i
entryContext(context, entries, i) ==
    [context EXCEPT !.prefix = IF i = Len(entries)
                               THEN <<9492, 9472, SP>> ELSE <<9500, 9472, SP>>,
                    !.isRoot = FALSE,
                    !.isLastChild = (i = Len(entries)),
                    !.label = entries[i].label,
                    !.index = entries[i].index]

\* the options that formatTree calls formatNode with
\* every node given an index, the root too
formatNodeOptsIndexed(context, children) ==
    [label |-> context.label, children |-> children, index |-> context.index]

formatNodeOpts(context, children) ==
    IF context.isRoot
    THEN [label |-> context.label, children |-> children]
    ELSE [label |-> context.label, children |-> children, index |-> context.index]

nextGuideOf(context) ==
    IF context.isRoot THEN <<>>
    ELSE context.guide \o (IF context.isLastChild
                           THEN <<SP, SP, SP>> ELSE <<9474, SP, SP>>)

RECURSIVE formatTree(_, _)

formatNodes(nodes, context) ==
    LET entries == entriesOf(nodes)
    IN  Flatten([i \in 1..Len(entries) |->
                    formatTree(entries[i].node, entryContext(context, entries, i))])

formatTree(node, context) ==
    LET children == getChildren(node)
        text == formatNode(node, formatNodeOpts(context, children))
        result == IF context.isRoot THEN text \o <<NL>>
                  ELSE context.guide \o context.prefix \o text \o <<NL>>
    IN  IF ~IsUndefined(children) /\ Len(children.array) > 0
        THEN result \o formatNodes(children.array,
                                   [context EXCEPT !.guide = nextGuideOf(context)])
        ELSE result

createRootContext ==
    [guide |-> <<>>, prefix |-> <<>>, isRoot |-> TRUE, isLastChild |-> TRUE,
     label |-> Undefined, index |-> 0]

formatTreeArray(tree) ==
    trimEnd(formatNodes(tree, [guide |-> <<>>, prefix |-> <<9500, 9472, SP>>,
                               isRoot |-> FALSE, isLastChild |-> FALSE,
                               label |-> Undefined, index |-> 0]))

legacyFormat(tree) ==
    IF isArray(tree) THEN formatTreeArray(tree.array)
    ELSE trimEnd(formatTree(tree, createRootContext))

\* The calls of the two callbacks that the earlier format makes, in the
\* order in which it makes them.
RECURSIVE formatTreeCalls(_, _)

formatNodesCalls(nodes, context) ==
    LET entries == entriesOf(nodes)
    IN  Flatten([i \in 1..Len(entries) |->
                    formatTreeCalls(entries[i].node, entryContext(context, entries, i))])

formatTreeCalls(node, context) ==
    LET children == getChildren(node)
        opts == formatNodeOpts(context, children)
    IN  <<[fn |-> "getChildren", node |-> node, returned |-> children],
          [fn |-> "formatNode", node |-> node, opts |-> opts,
           returned |-> formatNode(node, opts)]>>
        \o (IF ~IsUndefined(children) /\ Len(children.array) > 0
            THEN formatNodesCalls(children.array,
                                  [context EXCEPT !.guide = nextGuideOf(context)])
            ELSE <<>>)

legacyCallsOf(tree) ==
    IF isArray(tree)
    THEN formatNodesCalls(tree.array, [guide |-> <<>>, prefix |-> <<9500, 9472, SP>>,
                                       isRoot |-> FALSE, isLastChild |-> FALSE,
                                       label |-> Undefined, index |-> 0])
    ELSE formatTreeCalls(tree, createRootContext)

(***************************************************************************)
(* The inputs of the model.                                                *)
(***************************************************************************)
Texts == { <<>>, <<97>> }

CUSTOM_GLYPHS ==
    [ corner   |-> <<92, 95, SP>>,
      branch   |-> <<124, 45, SP>>,
      vertical |-> <<124, SP>>,
      indent   |-> <<SP>> ]

EMPTY_GLYPHS ==
    [ corner |-> <<>>, branch |-> <<>>, vertical |-> <<>>, indent |-> <<>> ]

\* a glyph set with an empty corner and an empty vertical bar
HALF_GLYPHS ==
    [ corner |-> <<>>, branch |-> <<124, 45, SP>>, vertical |-> <<>>, indent |-> <<SP>> ]

WithGlyphs(glyphs) == [kind |-> "object", glyphs |-> glyphs]

OptionsArgs ==
    { Undefined, EmptyObject, WithGlyphs(Undefined), WithGlyphs(DEFAULT_GLYPHS),
      WithGlyphs(CUSTOM_GLYPHS), WithGlyphs(EMPTY_GLYPHS), WithGlyphs(HALF_GLYPHS) }

\* the options of format, with and without rendering options
FormatArgs ==
    { [kind |-> "object", mapping |-> "mapping"],
      [kind |-> "object", mapping |-> "mapping", rendering |-> Undefined],
      [kind |-> "object", mapping |-> "mapping", rendering |-> WithGlyphs(CUSTOM_GLYPHS)] }

Kinds == { <<97>>, <<98>> }

Names == { <<110>> }

\* domain nodes carry a kind; the other entries of the stack are child
\* descriptors (named child, named children).  The weight of a stack counts
\* its domain nodes, and one for a group without members.
IsDomainNode(entry) == "kind" \in DOMAIN entry /\ "type" \notin DOMAIN entry

RECURSIVE Weight(_)
RECURSIVE WeightAll(_)
Weight(entry) ==
    IF "nodes" \in DOMAIN entry
    THEN IF Len(entry.nodes.array) = 0 THEN 1 ELSE WeightAll(entry.nodes.array)
    ELSE IF "node" \in DOMAIN entry THEN Weight(entry.node)
    ELSE IF "children" \in DOMAIN entry THEN 1 + WeightAll(entry.children.array)
    ELSE 1
WeightAll(entries) ==
    IF Len(entries) = 0 THEN 0 ELSE Weight(entries[1]) + WeightAll(Tail(entries))

LastOf(entries, count) == SubSeq(entries, Len(entries) - count + 1, Len(entries))

ButLastOf(entries, count) == SubSeq(entries, 1, Len(entries) - count)

RECURSIVE Size(_)
RECURSIVE SizeAll(_)
Size(node) == IF isLeaf(node) THEN 1 ELSE 1 + SizeAll(node.children.array)
SizeAll(nodes) == IF Len(nodes) = 0 THEN 0 ELSE Size(nodes[1]) + SizeAll(Tail(nodes))

(***************************************************************************)
(* The state machine: the caller builds nodes with leaf() and parent(),    *)
(* then calls render() once, on one node or on the array of the nodes.     *)
(***************************************************************************)
(***************************************************************************)
(* transform, call by call, on a domain whose nodes may be their own       *)
(* descendants.  The nodes are told apart by their kinds, and             *)
(* graph[node.kind] is what getChildren returns for the node.  A frame is  *)
(* one call of fromNode: its node, its index, and the nodes of the         *)
(* children mapped so far.                                                 *)
(***************************************************************************)
NoWalk == [graph |-> <<>>, root |-> Undefined, frames |-> <<>>, result |-> Undefined, done |-> FALSE]

GraphNodes == {[kind |-> kind] : kind \in Kinds}

ChildLists ==
    {<<>>} \cup {<<node>> : node \in GraphNodes}
           \cup {<<first, second>> : first, second \in GraphNodes}

Graphs == [Kinds -> {Undefined} \cup {Array(list) : list \in ChildLists}]

\* the text of the node, the context holding the children as returned
textOf(graph, frame) ==
    toText(frame.node, contextFor(frame.index, Undefined, graph[frame.node.kind]))

\* a walk that does not enter a node again while a call for it is running
mapsOnUnlessRunning(graph, frames) ==
    LET frame == frames[Len(frames)]
        children == graph[frame.node.kind]
    IN  /\ ~IsUndefined(children)
        /\ Len(frame.kids) < Len(children.array)
        /\ \A i \in 1..Len(frames) : frames[i].node # children.array[Len(frame.kids) + 1]

\* children.map has a child left to call fromNode for
mapsOn(graph, frames) ==
    LET frame == frames[Len(frames)]
        children == graph[frame.node.kind]
    IN  ~IsUndefined(children) /\ Len(frame.kids) < Len(children.array)

\* what the call returns: a leaf without children, else a parent
valueOf(graph, frame) ==
    IF IsUndefined(graph[frame.node.kind]) THEN leaf(textOf(graph, frame))
    ELSE parent(textOf(graph, frame), frame.kids)

\* transform(input, mapping) is called with the node walk.root
InitWalk ==
    /\ stack = <<>>
    /\ domain = Undefined
    /\ input = Array(<<>>)
    /\ options = Undefined
    /\ output = <<>>
    /\ calls = <<>>
    /\ pc = "walk"
    /\ \E graph \in Graphs, root \in GraphNodes :
          walk = [graph |-> graph, root |-> root,
                  frames |-> <<[node |-> root, index |-> 0, kids |-> <<>>]>>,
                  result |-> Undefined, done |-> FALSE]

\* fromNode is called for the next child
Call ==
    /\ pc = "walk"
    /\ Len(walk.frames) > 0
    /\ Len(walk.frames) < MaxDepth
    /\ mapsOn(walk.graph, walk.frames)
    /\ LET frame == walk.frames[Len(walk.frames)]
           children == walk.graph[frame.node.kind]
       IN  walk' = [walk EXCEPT !.frames =
                       Append(@, [node  |-> children.array[Len(frame.kids) + 1],
                                  index |-> Len(frame.kids),
                                  kids  |-> <<>>])]
    /\ UNCHANGED <<stack, domain, input, options, output, pc, calls>>

\* a call of fromNode returns, to the call that made it or to the caller
\* of transform
Return ==
    /\ pc = "walk"
    /\ Len(walk.frames) > 0
    /\ ~mapsOn(walk.graph, walk.frames)
    /\ LET depth == Len(walk.frames)
           value == valueOf(walk.graph, walk.frames[depth])
       IN  IF depth = 1
           THEN walk' = [walk EXCEPT !.frames = <<>>, !.result = value, !.done = TRUE]
           ELSE walk' = [walk EXCEPT !.frames =
                            [SubSeq(@, 1, depth - 1) EXCEPT
                                ![depth - 1].kids = Append(@, value)]]
    /\ UNCHANGED <<stack, domain, input, options, output, pc, calls>>

NextWalk == Call \/ Return

\* a call that can go on does go on
SpecWalk == InitWalk /\ [][NextWalk]_vars /\ WF_vars(NextWalk)

Init ==
    /\ stack = <<>>
    /\ domain = Undefined
    /\ input = Array(<<>>)
    /\ options = Undefined
    /\ output = <<>>
    /\ calls = <<>>
    /\ walk = NoWalk
    /\ pc \in {"build", "domain"}

Leaf(text) ==
    /\ pc = "build"
    /\ SizeAll(stack) < MaxNodes
    /\ stack' = Append(stack, leaf(text))
    /\ UNCHANGED <<domain, input, options, output, pc, calls, walk>>

Parent(text, count) ==
    /\ pc = "build"
    /\ SizeAll(stack) < MaxNodes
    /\ count <= Len(stack)
    /\ stack' = Append(ButLastOf(stack, count), parent(text, LastOf(stack, count)))
    /\ UNCHANGED <<domain, input, options, output, pc, calls, walk>>

RenderNode(opts) ==
    /\ pc = "build"
    /\ Len(stack) = 1
    /\ input' = stack[1]
    /\ options' = opts
    /\ output' = render(stack[1], opts)
    /\ pc' = "rendered"
    /\ UNCHANGED <<stack, domain, calls, walk>>

RenderArray(opts) ==
    /\ pc = "build"
    /\ input' = Array(stack)
    /\ options' = opts
    /\ output' = render(Array(stack), opts)
    /\ pc' = "rendered"
    /\ UNCHANGED <<stack, domain, calls, walk>>

\* the caller's tree: a node without children property
DomainLeaf(kind) ==
    /\ pc = "domain"
    /\ WeightAll(stack) < MaxDomain
    /\ stack' = Append(stack, [kind |-> kind])
    /\ UNCHANGED <<domain, input, options, output, pc, calls, walk>>

\* the caller's tree: a node whose children are the last `count` entries
DomainParent(kind, count) ==
    /\ pc = "domain"
    /\ WeightAll(stack) < MaxDomain
    /\ count <= Len(stack)
    /\ stack' = Append(ButLastOf(stack, count),
                       [kind |-> kind, children |-> Array(LastOf(stack, count))])
    /\ UNCHANGED <<domain, input, options, output, pc, calls, walk>>

\* the caller's tree: the last node as a named child {name, node}
NameChild(name) ==
    /\ pc = "domain"
    /\ Len(stack) > 0
    /\ IsDomainNode(stack[Len(stack)])
    /\ stack' = Append(ButLastOf(stack, 1),
                       [name |-> Str(name), node |-> stack[Len(stack)]])
    /\ UNCHANGED <<domain, input, options, output, pc, calls, walk>>

\* the caller's tree: the last `count` nodes as named children {name, nodes}
GroupChildren(name, count) ==
    /\ pc = "domain"
    /\ count > 0 \/ WeightAll(stack) < MaxDomain
    /\ count <= Len(stack)
    /\ \A i \in 1..count : IsDomainNode(LastOf(stack, count)[i])
    /\ stack' = Append(ButLastOf(stack, count),
                       [name |-> Str(name), nodes |-> Array(LastOf(stack, count))])
    /\ UNCHANGED <<domain, input, options, output, pc, calls, walk>>

TransformNode ==
    /\ pc = "domain"
    /\ Len(stack) = 1
    /\ IsDomainNode(stack[1])
    /\ domain' = stack[1]
    /\ input' = transform(stack[1])
    /\ calls' = callsOf(stack[1])
    /\ pc' = "transformed"
    /\ UNCHANGED <<stack, options, output, walk>>

TransformArray ==
    /\ pc = "domain"
    /\ \A i \in 1..Len(stack) : IsDomainNode(stack[i])
    /\ domain' = Array(stack)
    /\ input' = transform(Array(stack))
    /\ calls' = callsOf(Array(stack))
    /\ pc' = "transformed"
    /\ UNCHANGED <<stack, options, output, walk>>

\* the caller renders what transform returned
RenderTransformed(opts) ==
    /\ pc = "transformed"
    /\ options' = opts
    /\ output' = render(input, opts)
    /\ pc' = "rendered"
    /\ UNCHANGED <<stack, domain, input, calls, walk>>

\* format called with one domain node
FormatNode(opts) ==
    /\ pc = "domain"
    /\ Len(stack) = 1
    /\ IsDomainNode(stack[1])
    /\ domain' = stack[1]
    /\ options' = opts
    /\ calls' = callsOf(stack[1])
    /\ output' = format(stack[1], opts)
    /\ pc' = "formatted"
    /\ UNCHANGED <<stack, input, walk>>

\* format called with an array of domain nodes
FormatArray(opts) ==
    /\ pc = "domain"
    /\ \A i \in 1..Len(stack) : IsDomainNode(stack[i])
    /\ domain' = Array(stack)
    /\ options' = opts
    /\ calls' = callsOf(Array(stack))
    /\ output' = format(Array(stack), opts)
    /\ pc' = "formatted"
    /\ UNCHANGED <<stack, input, walk>>

Next ==
    \/ \E text \in Texts : Leaf(text)
    \/ \E text \in Texts, count \in 0..MaxNodes : Parent(text, count)
    \/ \E opts \in OptionsArgs : RenderNode(opts)
    \/ \E opts \in OptionsArgs : RenderArray(opts)
    \/ \E kind \in Kinds : DomainLeaf(kind)
    \/ \E kind \in Kinds, count \in 0..MaxDomain : DomainParent(kind, count)
    \/ \E name \in Names : NameChild(name)
    \/ \E name \in Names, count \in 0..MaxDomain : GroupChildren(name, count)
    \/ TransformNode
    \/ TransformArray
    \/ \E opts \in {Undefined, WithGlyphs(CUSTOM_GLYPHS)} : RenderTransformed(opts)
    \/ \E opts \in FormatArgs : FormatNode(opts)
    \/ \E opts \in FormatArgs : FormatArray(opts)

Spec == Init /\ [][Next]_vars

\* the calls of render alone: trees are built and rendered
InitRender == Init /\ pc = "build"

NextRender ==
    \/ \E text \in Texts : Leaf(text)
    \/ \E text \in Texts, count \in 0..MaxNodes : Parent(text, count)
    \/ \E opts \in OptionsArgs : RenderNode(opts)
    \/ \E opts \in OptionsArgs : RenderArray(opts)

SpecRender == InitRender /\ [][NextRender]_vars

\* the calls of transform and format alone: a domain input is built, then
\* transformed and rendered, or formatted
InitTransform == Init /\ pc = "domain"

NextTransform ==
    \/ \E kind \in Kinds : DomainLeaf(kind)
    \/ \E kind \in Kinds, count \in 0..MaxDomain : DomainParent(kind, count)
    \/ \E name \in Names : NameChild(name)
    \/ \E name \in Names, count \in 0..MaxDomain : GroupChildren(name, count)
    \/ TransformNode
    \/ TransformArray
    \/ \E opts \in {Undefined, WithGlyphs(CUSTOM_GLYPHS)} : RenderTransformed(opts)
    \/ \E opts \in FormatArgs : FormatNode(opts)
    \/ \E opts \in FormatArgs : FormatArray(opts)

SpecTransform == InitTransform /\ [][NextTransform]_vars

\* render called with given trees: nodes with and without a children
\* property, with one that is undefined, and with texts of two lines
SampleTexts == { <<97>>, <<97, NL, 98>> }

SampleLeaves ==
    {leaf(text) : text \in SampleTexts}
        \cup {[text |-> text, children |-> Undefined] : text \in SampleTexts}

ListsOver(nodes) ==
    {<<>>} \cup {<<node>> : node \in nodes}
           \cup {<<first, second>> : first, second \in nodes}

SampleNodes ==
    SampleLeaves
        \cup {parent(text, children) :
                 text \in SampleTexts, children \in ListsOver(SampleLeaves)}

SampleInputs ==
    SampleNodes
        \cup {parent(text, children) :
                 text \in {<<97>>}, children \in ListsOver(SampleNodes)}
        \cup {Array(nodes) : nodes \in ListsOver(SampleNodes)}

InitNodes ==
    /\ stack = <<>>
    /\ domain = Undefined
    /\ input \in SampleInputs
    /\ options = Undefined
    /\ output = <<>>
    /\ calls = <<>>
    /\ walk = NoWalk
    /\ pc = "sample"

RenderSample(opts) ==
    /\ pc = "sample"
    /\ options' = opts
    /\ output' = render(input, opts)
    /\ pc' = "rendered"
    /\ UNCHANGED <<stack, domain, input, calls, walk>>

NextNodes == \E opts \in OptionsArgs : RenderSample(opts)

SpecNodes == InitNodes /\ [][NextNodes]_vars

\* transform and format called with given domain inputs, and every call
\* made a second time with the arguments of the first
SampleDomainLeaves == {[kind |-> kind] : kind \in Kinds}

\* children of mixed shapes: nodes and node together, nodes that are no
\* array, a name that is no string, a name by itself, a node without name
OddDescriptors ==
    { [name |-> Str(<<110>>), nodes |-> Array(<<[kind |-> <<98>>]>>), node |-> [kind |-> <<97>>]],
      [kind |-> <<97>>, name |-> Str(<<110>>), nodes |-> Str(<<98>>), node |-> [kind |-> <<98>>]],
      [kind |-> <<97>>, name |-> [type |-> "number", value |-> 1], node |-> [kind |-> <<98>>]],
      [kind |-> <<97>>, name |-> Str(<<110>>)],
      [kind |-> <<97>>, name |-> Str(<<110>>), nodes |-> Str(<<98>>)],
      [kind |-> <<97>>, node |-> [kind |-> <<98>>]] }

SampleDescriptors ==
    SampleDomainLeaves
        \cup {[name |-> Str(name), node |-> node] :
                 name \in Names, node \in SampleDomainLeaves}
        \cup {[name |-> Str(name), nodes |-> Array(nodes)] :
                 name \in Names, nodes \in ListsOver(SampleDomainLeaves)}
        \cup OddDescriptors

SampleDomainNodes ==
    SampleDomainLeaves
        \cup {[kind |-> kind, children |-> Array(children)] :
                 kind \in Kinds, children \in ListsOver(SampleDescriptors)}

SampleDomains ==
    SampleDomainNodes
        \cup {Array(nodes) :
                 nodes \in ListsOver(SampleDomainLeaves
                                        \cup {[kind |-> <<97>>, children |-> Array(<<child>>)] :
                                                 child \in SampleDescriptors})}

InitDomains ==
    /\ stack = <<>>
    /\ domain \in SampleDomains
    /\ input = Array(<<>>)
    /\ options = Undefined
    /\ output = <<>>
    /\ calls = <<>>
    /\ walk = NoWalk
    /\ pc = "domain sample"

TransformSample ==
    /\ pc = "domain sample"
    /\ input' = transform(domain)
    /\ calls' = callsOf(domain)
    /\ pc' = "transformed"
    /\ UNCHANGED <<stack, domain, options, output, walk>>

FormatSample(opts) ==
    /\ pc = "domain sample"
    /\ options' = opts
    /\ calls' = callsOf(domain)
    /\ output' = format(domain, opts)
    /\ pc' = "formatted"
    /\ UNCHANGED <<stack, domain, input, walk>>

\* transform called again with the same input
TransformAgain ==
    /\ pc = "transformed"
    /\ input' = transform(domain)
    /\ calls' = callsOf(domain)
    /\ pc' = "transformed again"
    /\ UNCHANGED <<stack, domain, options, output, walk>>

\* render called again with the same input and options
RenderAgain ==
    /\ pc = "rendered"
    /\ output' = render(input, options)
    /\ pc' = "rendered again"
    /\ UNCHANGED <<stack, domain, input, options, calls, walk>>

\* format called again with the same input and options
FormatAgain ==
    /\ pc = "formatted"
    /\ calls' = callsOf(domain)
    /\ output' = format(domain, options)
    /\ pc' = "formatted again"
    /\ UNCHANGED <<stack, domain, input, options, walk>>

NextDomains ==
    \/ TransformSample
    \/ \E opts \in {Undefined, WithGlyphs(CUSTOM_GLYPHS)} : RenderTransformed(opts)
    \/ \E opts \in FormatArgs : FormatSample(opts)
    \/ TransformAgain
    \/ RenderAgain
    \/ FormatAgain

SpecDomains == InitDomains /\ [][NextDomains]_vars

\* the earlier format called with given domain inputs, whose children are
\* bare nodes and labeled ones; a kind may be the empty string
LegacyLeaves == {[kind |-> kind] : kind \in Kinds \cup {<<>>}}

WithLabels(nodes) == nodes \cup {Array(<<Str(name), node>>) : name \in Names, node \in nodes}

LegacyNodes ==
    LegacyLeaves
        \cup {[kind |-> <<97>>, children |-> Array(children)] :
                 children \in ListsOver(WithLabels(LegacyLeaves))}

LegacyInputs ==
    LegacyNodes
        \cup {[kind |-> <<98>>, children |-> Array(children)] :
                 children \in ListsOver(WithLabels(LegacyNodes))}
        \cup {Array(nodes) : nodes \in ListsOver(LegacyNodes)}

InitLegacy ==
    /\ stack = <<>>
    /\ domain \in LegacyInputs
    /\ input = Array(<<>>)
    /\ options = Undefined
    /\ output = <<>>
    /\ calls = <<>>
    /\ walk = NoWalk
    /\ pc = "legacy sample"

LegacyFormat ==
    /\ pc = "legacy sample"
    /\ calls' = legacyCallsOf(domain)
    /\ output' = legacyFormat(domain)
    /\ pc' = "legacy formatted"
    /\ UNCHANGED <<stack, domain, input, options, walk>>

NextLegacy == LegacyFormat

SpecLegacy == InitLegacy /\ [][NextLegacy]_vars

(***************************************************************************)
(* Reading a rendering back: the positions of the input's nodes, and the   *)
(* piece of the output that belongs to each of them.                       *)
(***************************************************************************)
Rendered == pc = "rendered"

Top == IF isArray(input) THEN input.array ELSE <<input>>

Kids(node) == IF isLeaf(node) THEN <<>> ELSE node.children.array

\* the nodes under `nodes` in depth-first pre-order, each with its position
\* (a path of 1-based indices) and whether it ends its sibling list
RECURSIVE EntriesUnder(_, _)
EntriesUnder(nodes, base) ==
    LET upTo[i \in 0..Len(nodes)] ==
            IF i = 0 THEN <<>>
            ELSE upTo[i - 1]
                 \o <<[path |-> Append(base, i), node |-> nodes[i], last |-> i = Len(nodes)]>>
                 \o EntriesUnder(Kids(nodes[i]), Append(base, i))
    IN  upTo[Len(nodes)]

NewlinesIn(string) == Cardinality({i \in 1..Len(string) : string[i] = NL})

RECURSIVE SplitLines(_)
SplitLines(string) ==
    IF \A i \in 1..Len(string) : string[i] # NL THEN <<string>>
    ELSE LET k == CHOOSE i \in 1..Len(string) :
                      string[i] = NL /\ \A j \in 1..(i - 1) : string[j] # NL
         IN  <<SubSeq(string, 1, k - 1)>> \o SplitLines(SubSeq(string, k + 1, Len(string)))

\* The output cut into one piece per node: the i-th node of the pre-order
\* owns as many lines as its text has newlines, plus one.  `whole` tells
\* whether the output has exactly the lines of its nodes.
ReadingOf(out) ==
    LET entries == EntriesUnder(Top, <<>>)
        lines == IF Len(entries) = 0 THEN <<>> ELSE SplitLines(out)
        ends[i \in 0..Len(entries)] ==
            IF i = 0 THEN 0 ELSE ends[i - 1] + 1 + NewlinesIn(entries[i].node.text)
        whole == Len(lines) = ends[Len(entries)]
    IN  [ entries |-> entries,
          whole   |-> whole,
          chunks  |-> IF whole
                      THEN [i \in 1..Len(entries) |->
                               join(SubSeq(lines, ends[i - 1] + 1, ends[i]), <<NL>>)]
                      ELSE <<>> ]

Reading == ReadingOf(output)

EndsWith(string, suffix) ==
    /\ Len(suffix) <= Len(string)
    /\ SubSeq(string, Len(string) - Len(suffix) + 1, Len(string)) = suffix

\* the glyphs the call asked for
Glyphs ==
    IF options \in {Undefined, EmptyObject, WithGlyphs(Undefined)}
    THEN [ corner   |-> <<9492, 9472, 32>>, branch |-> <<9500, 9472, 32>>,
           vertical |-> <<9474, 32, 32>>,   indent |-> <<32, 32, 32>> ]
    ELSE options.glyphs

RECURSIVE SiblingsAt(_, _)
SiblingsAt(nodes, path) ==
    IF Len(path) = 1 THEN nodes
    ELSE SiblingsAt(Kids(nodes[path[1]]), Tail(path))

IsLastAt(path) == path[Len(path)] = Len(SiblingsAt(Top, path))

IsRootAt(path) == ~isArray(input) /\ Len(path) = 1

\* one segment per proper ancestor that is not the root: a bar while the
\* ancestor still has a later sibling, blank indentation when it is the last
Segment(ancestor) ==
    IF IsRootAt(ancestor) THEN <<>>
    ELSE IF IsLastAt(ancestor) THEN Glyphs.indent
    ELSE Glyphs.vertical

RECURSIVE Segments(_, _)
Segments(path, level) ==
    IF level = 0 THEN <<>>
    ELSE Segments(path, level - 1) \o Segment(SubSeq(path, 1, level))

Margin(path) == Segments(path, Len(path) - 1)

(***************************************************************************)
(* The claims about render.                                                *)
(***************************************************************************)

\* C1: in a rendering, the piece written for every non-root node ends with
\* its connector followed by its text, the connector being glyphs.corner
\* when the node is the last of its sibling list and glyphs.branch
\* otherwise; whatever precedes the connector is the prefix.
C1_ConnectorOfEveryNonRootNode ==
    Rendered =>
        LET r == Reading
        IN  /\ r.whole
            /\ \A i \in 1..Len(r.entries) :
                  ~IsRootAt(r.entries[i].path) =>
                      EndsWith(r.chunks[i],
                               (IF r.entries[i].last THEN Glyphs.corner ELSE Glyphs.branch)
                               \o r.entries[i].node.text)

\* C1 witness: a rendered sibling list of three, whose first two lines carry
\* the branch and whose last line carries the corner.
C1_Witness ==
    /\ Rendered
    /\ isArray(input)
    /\ Len(input.array) = 3
    /\ options = WithGlyphs(CUSTOM_GLYPHS)
    /\ \A i \in 1..3 : isLeaf(input.array[i]) /\ input.array[i].text = <<97>>
    /\ output = <<124, 45, 32, 97, 10, 124, 45, 32, 97, 10, 92, 95, 32, 97>>

\* C2: the part of a node's line before its connector is made of one segment
\* per non-root proper ancestor, outermost first: glyphs.vertical when that
\* ancestor has a later sibling, glyphs.indent when it is the last sibling.
C2_MarginFollowsAncestors ==
    Rendered =>
        LET r == Reading
        IN  /\ r.whole
            /\ \A i \in 1..Len(r.entries) :
                  ~IsRootAt(r.entries[i].path) =>
                      LET path == r.entries[i].path
                          rest == Len(IF r.entries[i].last THEN Glyphs.corner
                                      ELSE Glyphs.branch)
                                  + Len(r.entries[i].node.text)
                      IN  /\ rest <= Len(r.chunks[i])
                          /\ SubSeq(r.chunks[i], 1, Len(r.chunks[i]) - rest) = Margin(path)

\* C2 witness: a grandchild below a non-last element and then a last child:
\* its line starts with a bar segment followed by an indentation segment.
C2_Witness ==
    /\ Rendered
    /\ isArray(input)
    /\ Len(input.array) = 2
    /\ options = WithGlyphs(CUSTOM_GLYPHS)
    /\ \E i \in 1..Len(Reading.entries) :
          /\ Reading.entries[i].path = <<1, 1, 1>>
          /\ Margin(<<1, 1, 1>>) = <<124, 32, 32>>
          /\ Reading.chunks[i] = <<124, 32, 32, 92, 95, 32, 97>>

\* C3: a single node given to render is the root: its line is its text
\* alone, and its direct children are written with an empty prefix, that is
\* as connector followed by text.
C3_RootHasNoConnector ==
    (Rendered /\ ~isArray(input)) =>
        LET r == Reading
        IN  /\ r.whole
            /\ r.chunks[1] = input.text
            /\ \A i \in 1..Len(r.entries) :
                  Len(r.entries[i].path) = 2 =>
                      r.chunks[i] = (IF r.entries[i].path[2] = Len(input.children.array)
                                     THEN Glyphs.corner ELSE Glyphs.branch)
                                    \o r.entries[i].node.text

\* C3 witness: a rendered root with two children.
C3_Witness ==
    /\ Rendered
    /\ ~isArray(input)
    /\ isParent(input)
    /\ Len(input.children.array) = 2
    /\ input.text = <<97>>
    /\ options = Undefined
    /\ SubSeq(output, 1, 5) = <<97, 10, 9500, 9472, 32>>

\* C4: no element of an array given to render is a root: each element's
\* line is connector followed by text with an empty prefix, the corner for
\* the last element and the branch for the others, and the output has one
\* line per node: element renderings are joined by single newlines and
\* nothing comes before the first element.
C4_ArrayElementsAreNotRoots ==
    (Rendered /\ isArray(input)) =>
        LET r == Reading
        IN  /\ r.whole
            /\ \A i \in 1..Len(r.entries) :
                  Len(r.entries[i].path) = 1 =>
                      r.chunks[i] = (IF r.entries[i].path[1] = Len(input.array)
                                     THEN Glyphs.corner ELSE Glyphs.branch)
                                    \o input.array[r.entries[i].path[1]].text
            /\ output = join(r.chunks, <<NL>>)

\* C4 witness: the array of the single leaf "a" renders as corner + "a".
C4_Witness ==
    /\ Rendered
    /\ input = Array(<<leaf(<<97>>)>>)
    /\ options = EmptyObject
    /\ output = <<9492, 9472, 32, 97>>

RECURSIVE Leafed(_)
Leafed(node) ==
    IF isLeaf(node) \/ Len(node.children.array) = 0 THEN leaf(node.text)
    ELSE parent(node.text,
                [i \in 1..Len(node.children.array) |-> Leafed(node.children.array[i])])

RECURSIVE Parented(_)
Parented(node) ==
    IF isLeaf(node) THEN parent(node.text, <<>>)
    ELSE parent(node.text,
                [i \in 1..Len(node.children.array) |-> Parented(node.children.array[i])])

\* the input with every childless parent written as a leaf
LeafedInput ==
    IF isArray(input) THEN Array([i \in 1..Len(input.array) |-> Leafed(input.array[i])])
    ELSE Leafed(input)

\* the input with every leaf written as a parent of no children
ParentedInput ==
    IF isArray(input) THEN Array([i \in 1..Len(input.array) |-> Parented(input.array[i])])
    ELSE Parented(input)

\* C5: writing leaf(t) as parent(t, []) or back, at any position of the
\* input, does not change the rendering; a parent without children takes
\* exactly its own line, which ends with its text.
C5_EmptyParentRendersAsLeaf ==
    Rendered =>
        LET r == Reading
        IN  /\ output = render(LeafedInput, options)
            /\ output = render(ParentedInput, options)
            /\ r.whole
            /\ \A i \in 1..Len(r.entries) :
                  (isParent(r.entries[i].node) /\ Len(r.entries[i].node.children.array) = 0)
                      => EndsWith(r.chunks[i], r.entries[i].node.text)

\* C5 witness: a rendering whose input has a parent without children as a
\* non-last child, next to a leaf.
C5_Witness ==
    /\ Rendered
    /\ ~isArray(input)
    /\ isParent(input)
    /\ Len(input.children.array) = 2
    /\ input.children.array[1] = parent(<<97>>, <<>>)
    /\ input.children.array[2] = leaf(<<97>>)
    /\ input # LeafedInput
    /\ output = render(LeafedInput, options)

\* C6: the rendering of an empty array is the empty string, whatever the
\* options.
C6_EmptyArrayRendersEmpty ==
    (Rendered /\ isArray(input) /\ Len(input.array) = 0) => output = <<>>

\* C6 witness: the empty array rendered with custom glyphs.
C6_Witness ==
    /\ Rendered
    /\ input = Array(<<>>)
    /\ options = WithGlyphs(CUSTOM_GLYPHS)
    /\ output = <<>>

\* C7 as stated: the rendering of a single node never ends in whitespace.
C7_RootOutputIsTrimmed ==
    (Rendered /\ ~isArray(input)) =>
        (Len(output) = 0 \/ output[Len(output)] \notin WhiteSpace)

\* C7 as amended: the rendering of a single node is returned untrimmed: it
\* ends with the whole line of the last node, margin, connector and text,
\* also when that line ends in whitespace.
C7_RootOutputIsNotTrimmed ==
    (Rendered /\ ~isArray(input)) =>
        LET r == Reading
            n == Len(r.entries)
            lastLine == IF n = 1 THEN input.text
                        ELSE Margin(r.entries[n].path)
                             \o (IF r.entries[n].last THEN Glyphs.corner ELSE Glyphs.branch)
                             \o r.entries[n].node.text
        IN  /\ r.whole
            /\ r.chunks[n] = lastLine
            /\ EndsWith(output, lastLine)

\* C7 witness: a root whose last node has the empty text: with the default
\* glyphs the rendering ends with the space that ends the corner.
C7_Witness ==
    /\ Rendered
    /\ input = parent(<<97>>, <<leaf(<<>>)>>)
    /\ options = Undefined
    /\ output = <<97, 10, 9492, 9472, 32>>

\* C8: a node with the empty text still has its line: margin and connector
\* followed by nothing (the empty line for a root); with the default glyphs
\* that line ends in a space.  Leaves and parents alike, and also on the
\* last line of the rendering of an array.
C8_EmptyTextKeepsItsLine ==
    Rendered =>
        LET r == Reading
        IN  /\ r.whole
            /\ \A i \in 1..Len(r.entries) :
                  r.entries[i].node.text = <<>> =>
                      IF IsRootAt(r.entries[i].path) THEN r.chunks[i] = <<>>
                      ELSE /\ r.chunks[i] = Margin(r.entries[i].path)
                                            \o (IF r.entries[i].last THEN Glyphs.corner
                                                ELSE Glyphs.branch)
                           /\ options \in {Undefined, EmptyObject, WithGlyphs(Undefined),
                                           WithGlyphs(DEFAULT_GLYPHS)} =>
                                  r.chunks[i][Len(r.chunks[i])] = 32
            /\ (isArray(input) /\ Len(r.entries) > 0) =>
                  EndsWith(output, r.chunks[Len(r.entries)])

\* C8 witness: the array [leaf(""), parent("", [leaf("")])] of the tests.
C8_Witness ==
    /\ Rendered
    /\ input = Array(<<leaf(<<>>), parent(<<>>, <<leaf(<<>>)>>)>>)
    /\ options = Undefined
    /\ output = <<9500, 9472, 32, 10, 9492, 9472, 32, 10, 32, 32, 32, 9492, 9472, 32>>

IsKindChar(char) == \E kind \in Kinds : char = kind[1]

RECURSIVE StandsFor(_, _)
RECURSIVE AllStandFor(_, _)
\* the uniform node stands for the child descriptor: a named children group
\* by a parent with the group's name over its members, a named child or a
\* bare node by the node for it, whose text carries its kind, over the
\* nodes for its child descriptors, one each and in their order
StandsFor(node, child) ==
    IF "nodes" \in DOMAIN child
    THEN /\ node.text = child.name.chars
         /\ isParent(node)
         /\ AllStandFor(node.children.array, child.nodes.array)
    ELSE IF "node" \in DOMAIN child THEN StandsFor(node, child.node)
    ELSE /\ SelectSeq(node.text, IsKindChar) = child.kind
         /\ IF "children" \in DOMAIN child
            THEN isParent(node) /\ AllStandFor(node.children.array, child.children.array)
            ELSE isLeaf(node)
AllStandFor(nodes, children) ==
    /\ Len(nodes) = Len(children)
    /\ \A i \in 1..Len(nodes) : StandsFor(nodes[i], children[i])

\* C9: the output is the lines of the nodes in depth-first pre-order (a
\* parent, then the whole block of each child in the order of children),
\* one piece per node, none left out or repeated, each ending with its
\* node's text; and the tree returned by transform has, under every node,
\* one node per child descriptor of getChildren, in the same order.
C9_OrderIsKept ==
    /\ Rendered =>
          LET r == Reading
          IN  /\ r.whole
              /\ output = join(r.chunks, <<NL>>)
              /\ \A i \in 1..Len(r.entries) :
                    EndsWith(r.chunks[i], r.entries[i].node.text)
    /\ pc \in {"transformed", "rendered"} /\ ~IsUndefined(domain) =>
          IF isArray(domain)
          THEN isArray(input) /\ AllStandFor(input.array, domain.array)
          ELSE ~isArray(input) /\ StandsFor(input, domain)

\* C9 witness: a node with a bare child "b" before a named child "a",
\* transformed and rendered: the lines come in that order.
C9_Witness ==
    /\ Rendered
    /\ domain = [kind |-> <<97>>,
                 children |-> Array(<<[kind |-> <<98>>],
                                      [name |-> Str(<<110>>), node |-> [kind |-> <<97>>]]>>)]
    /\ input = parent(<<35, 48, 32, 97, 91, 50, 93>>,
                      <<leaf(<<35, 48, 32, 98>>), leaf(<<35, 49, 32, 110, 58, 32, 97>>)>>)
    /\ options = Undefined
    /\ output = <<35, 48, 32, 97, 91, 50, 93, 10,
                  9500, 9472, 32, 35, 48, 32, 98, 10,
                  9492, 9472, 32, 35, 49, 32, 110, 58, 32, 97>>

\* C10: a call without options, with {}, with {glyphs: undefined} and with
\* {glyphs: DEFAULT_GLYPHS} all return the rendering with the glyphs
\* corner "└─ ", branch "├─ ", vertical "│  ", indent "   ".
C10_DefaultGlyphs ==
    (Rendered /\ options \in {Undefined, EmptyObject, WithGlyphs(Undefined),
                              WithGlyphs(DEFAULT_GLYPHS)}) =>
        output = render(input,
                        WithGlyphs([ corner   |-> <<9492, 9472, 32>>,
                                     branch   |-> <<9500, 9472, 32>>,
                                     vertical |-> <<9474, 32, 32>>,
                                     indent   |-> <<32, 32, 32>> ]))

\* C10 witness: a rendering with {glyphs: undefined} that shows all four
\* default glyphs.
C10_Witness ==
    /\ Rendered
    /\ options = WithGlyphs(Undefined)
    /\ input = Array(<<parent(<<97>>, <<leaf(<<97>>)>>), parent(<<97>>, <<leaf(<<97>>)>>)>>)
    /\ output = <<9500, 9472, 32, 97, 10, 9474, 32, 32, 9492, 9472, 32, 97, 10,
                  9492, 9472, 32, 97, 10, 32, 32, 32, 9492, 9472, 32, 97>>

\* the string of the glyph set that stands where the default rendering has
\* the given connector segment
Substituted(segment, glyphs) ==
    CASE segment = <<9492, 9472, 32>> -> glyphs.corner
      [] segment = <<9500, 9472, 32>> -> glyphs.branch
      [] segment = <<9474, 32, 32>>   -> glyphs.vertical
      [] segment = <<32, 32, 32>>     -> glyphs.indent
      [] OTHER                        -> segment

\* a line of the default rendering whose first `count` segments (of three
\* code units each) are replaced one by one, the rest being kept
RECURSIVE Resegmented(_, _, _)
Resegmented(line, count, glyphs) ==
    IF count = 0 \/ Len(line) < 3 THEN line
    ELSE Substituted(SubSeq(line, 1, 3), glyphs)
         \o Resegmented(SubSeq(line, 4, Len(line)), count - 1, glyphs)

\* C11: the rendering with a glyph set G is the default rendering of the
\* same input in which every connector segment (as many per line as the
\* node has non-root ancestors, plus its own connector) is replaced, in
\* place, by the string of G for it: same lines, same order, same texts.
C11_GlyphsAreSubstitutedInPlace ==
    (Rendered /\ "glyphs" \in DOMAIN options /\ ~IsUndefined(options.glyphs)) =>
        LET plain == ReadingOf(render(input, Undefined))
            depth(i) == Len(plain.entries[i].path) - (IF isArray(input) THEN 0 ELSE 1)
        IN  /\ plain.whole
            /\ output = join([i \in 1..Len(plain.entries) |->
                                 Resegmented(plain.chunks[i], depth(i), options.glyphs)],
                             <<NL>>)

\* C11 witness: an array rendered with the custom glyphs, whose lines show
\* the four of them where the default rendering has its own.
C11_Witness ==
    /\ Rendered
    /\ options = WithGlyphs(CUSTOM_GLYPHS)
    /\ input = Array(<<parent(<<97>>, <<leaf(<<97>>)>>), parent(<<97>>, <<leaf(<<97>>)>>)>>)
    /\ render(input, Undefined)
         = <<9500, 9472, 32, 97, 10, 9474, 32, 32, 9492, 9472, 32, 97, 10,
             9492, 9472, 32, 97, 10, 32, 32, 32, 9492, 9472, 32, 97>>
    /\ output = <<124, 45, 32, 97, 10, 124, 32, 92, 95, 32, 97, 10,
                  92, 95, 32, 97, 10, 32, 92, 95, 32, 97>>

(***************************************************************************)
(* The claims about transform.                                             *)
(***************************************************************************)
Transformed == pc \in {"transformed", "rendered"} /\ ~IsUndefined(domain)

\* the domain node of a child descriptor that is not a group
NodeOf(child) == IF "node" \in DOMAIN child THEN child.node ELSE child

RECURSIVE ShapedAs(_, _)
RECURSIVE AllShapedAs(_, _)
\* the uniform node is a leaf exactly when getChildren returns nothing for
\* the domain node, and otherwise a parent of one node per child descriptor
ShapedAs(node, child) ==
    IF "nodes" \in DOMAIN child
    THEN isParent(node) /\ AllShapedAs(node.children.array, child.nodes.array)
    ELSE LET returned == getChildren(NodeOf(child))
         IN  /\ isLeaf(node) <=> IsUndefined(returned)
             /\ isParent(node) <=> ~IsUndefined(returned)
             /\ ~IsUndefined(returned) =>
                    AllShapedAs(node.children.array, returned.array)
AllShapedAs(nodes, children) ==
    /\ Len(nodes) = Len(children)
    /\ \A i \in 1..Len(nodes) : ShapedAs(nodes[i], children[i])

\* C12: transform returns a leaf for a domain node exactly when getChildren
\* returned undefined for it, and otherwise a parent with one child per
\* child descriptor; an empty sequence of descriptors gives a parent with
\* no children, not a leaf.
C12_LeafIffNoChildren ==
    Transformed =>
        IF isArray(domain)
        THEN isArray(input) /\ AllShapedAs(input.array, domain.array)
        ELSE ~isArray(input) /\ ShapedAs(input, domain)

\* C12 witness: a node with an empty children sequence next to a node
\* without children: a parent of nothing and a leaf.
C12_Witness ==
    /\ pc = "transformed"
    /\ domain = Array(<<[kind |-> <<97>>, children |-> Array(<<>>)], [kind |-> <<98>>]>>)
    /\ input = Array(<<parent(<<35, 48, 32, 97, 91, 48, 93>>, <<>>),
                       leaf(<<35, 49, 32, 98>>)>>)

\* the uniform tree has the shape of the domain input
Agrees ==
    IF isArray(domain)
    THEN isArray(input) /\ AllShapedAs(input.array, domain.array)
    ELSE ~isArray(input) /\ ShapedAs(input, domain)

\* The child descriptors under `children` in depth-first pre-order, each
\* with the uniform node at its place, its zero-based position in its list,
\* and the list it is in: "root", "array", "children" or "group".
RECURSIVE PairsUnder(_, _, _)
PairsUnder(nodes, children, list) ==
    LET below(i) ==
            LET child == children[i]
            IN  IF "nodes" \in DOMAIN child
                THEN PairsUnder(Kids(nodes[i]), child.nodes.array, "group")
                ELSE IF IsUndefined(getChildren(NodeOf(child))) THEN <<>>
                ELSE PairsUnder(Kids(nodes[i]), getChildren(NodeOf(child)).array, "children")
    IN  Flatten([i \in 1..Len(children) |->
                    <<[child |-> children[i], node |-> nodes[i],
                       index |-> i - 1, list |-> list]>> \o below(i)])

Pairs ==
    IF isArray(domain) THEN PairsUnder(input.array, domain.array, "array")
    ELSE PairsUnder(<<input>>, <<domain>>, "root")

IsGroup(pair) == "nodes" \in DOMAIN pair.child
IsNamedChildPair(pair) == "node" \in DOMAIN pair.child
IsVisit(pair) == ~IsGroup(pair)
IsToText(call) == call.fn = "toText"
IsGetChildren(call) == call.fn = "getChildren"

\* the domain nodes with their uniform nodes, and the calls of toText
Visits == SelectSeq(Pairs, IsVisit)
TextCalls == SelectSeq(calls, IsToText)

\* the same, read once: the uniform tree must agree with the domain input
\* for the pairs to be those of the same places
Walked ==
    IF Agrees
    THEN LET pairs == Pairs
         IN  [agrees |-> TRUE, pairs |-> pairs,
              visits |-> SelectSeq(pairs, IsVisit), texts |-> TextCalls]
    ELSE [agrees |-> FALSE, pairs |-> <<>>, visits |-> <<>>, texts |-> <<>>]

\* C13: a named children group gives one parent whose text is the name of
\* the group as it stands, toText not being called for it, over the nodes
\* of its members in their order (none for an empty group); toText is
\* called for each member with its zero-based position in the group as
\* index and without a name, and what it returns is the member's text.
C13_GroupIsOneWrapper ==
    Transformed =>
        LET w == Walked
        IN  /\ w.agrees
            /\ Len(w.texts) = Len(w.visits)
            /\ \A k \in 1..Len(w.pairs) :
                  IsGroup(w.pairs[k]) =>
                     LET group == w.pairs[k].child
                         node == w.pairs[k].node
                     IN  /\ isParent(node)
                         /\ node.text = group.name.chars
                         /\ Len(node.children.array) = Len(group.nodes.array)
                         /\ \A c \in 1..Len(calls) : calls[c].node # group
            /\ \A k \in 1..Len(w.visits) :
                  w.visits[k].list = "group" =>
                     /\ w.texts[k].node = w.visits[k].child
                     /\ w.texts[k].context.index = w.visits[k].index
                     /\ IsUndefined(w.texts[k].context.name)
                     /\ w.visits[k].node.text = w.texts[k].returned

\* C13 witness: a group of one member and an empty group under one node.
C13_Witness ==
    /\ pc = "transformed"
    /\ domain = [kind |-> <<97>>,
                 children |-> Array(<<[name |-> Str(<<110>>),
                                       nodes |-> Array(<<[kind |-> <<98>>]>>)],
                                      [name |-> Str(<<110>>), nodes |-> Array(<<>>)]>>)]
    /\ input = parent(<<35, 48, 32, 97, 91, 50, 93>>,
                      <<parent(<<110>>, <<leaf(<<35, 48, 32, 98>>)>>),
                        parent(<<110>>, <<>>)>>)
    /\ Len(TextCalls) = 2

\* C14: a named child gives one node at its own place, no level being
\* added: toText is called for the node it wraps with its name as
\* context.name, and returns the text of that node; for every other node
\* (the single root, the elements of the input array, bare children and
\* members of a group) the name is absent.
C14_NamedChildAddsNoLevel ==
    Transformed =>
        LET w == Walked
        IN  /\ w.agrees
            /\ Len(w.texts) = Len(w.visits)
            /\ \A k \in 1..Len(w.visits) :
                  /\ w.texts[k].node = NodeOf(w.visits[k].child)
                  /\ w.visits[k].node.text = w.texts[k].returned
                  /\ IF IsNamedChildPair(w.visits[k])
                     THEN w.texts[k].context.name = w.visits[k].child.name
                     ELSE IsUndefined(w.texts[k].context.name)

\* C14 witness: a named child that has a bare child of its own.
C14_Witness ==
    /\ pc = "transformed"
    /\ domain = [kind |-> <<97>>,
                 children |-> Array(<<[name |-> Str(<<110>>),
                                       node |-> [kind |-> <<98>>,
                                                 children |-> Array(<<[kind |-> <<97>>]>>)]]>>)]
    /\ input = parent(<<35, 48, 32, 97, 91, 49, 93>>,
                      <<parent(<<35, 48, 32, 110, 58, 32, 98, 91, 49, 93>>,
                               <<leaf(<<35, 48, 32, 97>>)>>)>>)
    /\ TextCalls[2].context.name = Str(<<110>>)
    /\ IsUndefined(TextCalls[1].context.name) /\ IsUndefined(TextCalls[3].context.name)

\* C15: the index given to toText is the zero-based position of the node
\* in its list: 0 for a single input node, the position in the input
\* array, the position in the list of child descriptors for a bare or a
\* named child (a group before it counting for one), the position in the
\* group for a member.
C15_IndexIsSiblingPosition ==
    Transformed =>
        LET w == Walked
        IN  /\ w.agrees
            /\ Len(w.texts) = Len(w.visits)
            /\ \A k \in 1..Len(w.visits) :
                  /\ w.texts[k].node = NodeOf(w.visits[k].child)
                  /\ w.texts[k].context.index = w.visits[k].index
                  /\ w.visits[k].node.text = w.texts[k].returned
                  /\ w.visits[k].list = "root" => w.texts[k].context.index = 0

\* C15 witness: a group of one member before a bare child: the member has
\* index 0 and the bare child, second in the list, has index 1.
C15_Witness ==
    /\ pc = "transformed"
    /\ domain = [kind |-> <<97>>,
                 children |-> Array(<<[name |-> Str(<<110>>),
                                       nodes |-> Array(<<[kind |-> <<98>>]>>)],
                                      [kind |-> <<97>>]>>)]
    /\ input = parent(<<35, 48, 32, 97, 91, 50, 93>>,
                      <<parent(<<110>>, <<leaf(<<35, 48, 32, 98>>)>>),
                        leaf(<<35, 49, 32, 97>>)>>)
    /\ TextCalls[2].context.index = 0
    /\ TextCalls[3].context.index = 1

\* C16: toText is called for a node after getChildren, and the children of
\* its context are absent exactly when getChildren returned nothing;
\* otherwise they are one entry per child descriptor, in order: a bare node
\* itself, the node of a named child, the sequence of nodes of a group, so
\* that their number is the number of descriptors.
C16_ContextChildrenAreUnwrapped ==
    Transformed =>
        \A c \in 1..Len(calls) :
            IsToText(calls[c]) =>
                /\ c > 1 /\ IsGetChildren(calls[c - 1]) /\ calls[c - 1].node = calls[c].node
                /\ LET returned == calls[c - 1].returned
                       given == calls[c].context.children
                   IN  /\ IsUndefined(given) <=> IsUndefined(returned)
                       /\ ~IsUndefined(returned) =>
                             /\ isArray(given)
                             /\ Len(given.array) = Len(returned.array)
                             /\ \A i \in 1..Len(returned.array) :
                                   LET child == returned.array[i]
                                   IN  given.array[i] =
                                          IF "nodes" \in DOMAIN child THEN child.nodes
                                          ELSE IF "node" \in DOMAIN child THEN child.node
                                          ELSE child

\* C16 witness: a node with a group of one member and a named child: two
\* descriptors, two entries, the sequence of members and the node.
C16_Witness ==
    /\ pc = "transformed"
    /\ domain = [kind |-> <<97>>,
                 children |-> Array(<<[name |-> Str(<<110>>),
                                       nodes |-> Array(<<[kind |-> <<97>>]>>)],
                                      [name |-> Str(<<110>>), node |-> [kind |-> <<98>>]]>>)]
    /\ calls[2].context.children = Array(<<Array(<<[kind |-> <<97>>]>>), [kind |-> <<98>>]>>)
    /\ IsUndefined(calls[4].context.children)
    /\ input.text = <<35, 48, 32, 97, 91, 50, 93>>

(***************************************************************************)
(* The claims about format.                                                *)
(***************************************************************************)
Formatted == pc = "formatted"

\* the rendering options that format was given, undefined when left out
RenderingGiven == IF "rendering" \in DOMAIN options THEN options.rendering ELSE Undefined

\* C17: what format returns is what render returns for the tree that
\* transform returns for the same input, under the rendering options given,
\* with nothing trimmed and nothing added; without rendering options the
\* glyphs are the default ones.
C17_FormatIsRenderOfTransform ==
    Formatted =>
        /\ output = render(transform(domain), RenderingGiven)
        /\ IsUndefined(RenderingGiven) =>
              output = render(transform(domain), WithGlyphs(DEFAULT_GLYPHS))
        /\ ~IsUndefined(RenderingGiven) =>
              output = render(transform(domain), WithGlyphs(RenderingGiven.glyphs))

\* C17 witness: a node with one child formatted with the glyphs "\_ ".
C17_Witness ==
    /\ Formatted
    /\ domain = [kind |-> <<97>>, children |-> Array(<<[kind |-> <<98>>]>>)]
    /\ RenderingGiven = WithGlyphs(CUSTOM_GLYPHS)
    /\ output = <<35, 48, 32, 97, 91, 49, 93, 10, 92, 95, 32, 35, 48, 32, 98>>

(***************************************************************************)
(* The claims about the rendering of a transformed tree.                   *)
(***************************************************************************)
\* the domain nodes reachable through getChildren from the descriptors
RECURSIVE DomainNodesUnder(_)
DomainNodesUnder(children) ==
    IF Len(children) = 0 THEN 0
    ELSE (IF "nodes" \in DOMAIN children[1]
          THEN DomainNodesUnder(children[1].nodes.array)
          ELSE 1 + (IF IsUndefined(getChildren(NodeOf(children[1]))) THEN 0
                    ELSE DomainNodesUnder(getChildren(NodeOf(children[1])).array)))
         + DomainNodesUnder(Tail(children))

\* the named children groups met on the way
RECURSIVE GroupsUnder(_)
GroupsUnder(children) ==
    IF Len(children) = 0 THEN 0
    ELSE (IF "nodes" \in DOMAIN children[1]
          THEN 1 + GroupsUnder(children[1].nodes.array)
          ELSE IF IsUndefined(getChildren(NodeOf(children[1]))) THEN 0
          ELSE GroupsUnder(getChildren(NodeOf(children[1])).array))
         + GroupsUnder(Tail(children))

DomainTop == IF isArray(domain) THEN domain.array ELSE <<domain>>

\* the lines of a rendering whose texts are neither empty nor broken
LineCount(string) == IF Len(string) = 0 THEN 0 ELSE NewlinesIn(string) + 1

\* a state that holds the rendering of the transformed domain input
RenderedFromDomain == Formatted \/ (Rendered /\ ~IsUndefined(domain))

\* C18, as stated: the rendering of transform(t) has as many lines, one
\* text each, as there are domain nodes reachable through getChildren.
C18_OneLinePerDomainNode ==
    RenderedFromDomain => LineCount(output) = DomainNodesUnder(DomainTop)

\* C18, amended: the rendering of transform(t) has one line for every
\* domain node reachable through getChildren and one more for every named
\* children group, whose name is a line of its own; without groups the
\* lines are as many as the domain nodes.
C18_OneLinePerNodeAndGroup ==
    RenderedFromDomain =>
        /\ LineCount(output) = DomainNodesUnder(DomainTop) + GroupsUnder(DomainTop)
        /\ GroupsUnder(DomainTop) = 0 => LineCount(output) = DomainNodesUnder(DomainTop)

\* C18 witness: a node with a group of one member: two domain nodes, three
\* lines, the second being the name of the group.
C18_Witness ==
    /\ Formatted
    /\ domain = [kind |-> <<97>>,
                 children |-> Array(<<[name |-> Str(<<110>>),
                                       nodes |-> Array(<<[kind |-> <<98>>]>>)]>>)]
    /\ "rendering" \notin DOMAIN options
    /\ output = <<35, 48, 32, 97, 91, 49, 93, 10,
                  9492, 9472, 32, 110, 10,
                  32, 32, 32, 9492, 9472, 32, 35, 48, 32, 98>>
    /\ DomainNodesUnder(DomainTop) = 2
    /\ LineCount(output) = 3

(***************************************************************************)
(* The claims about what render accepts.                                   *)
(***************************************************************************)
\* the connector of the node at the path, as the glyphs asked for have it
ConnectorAt(path) ==
    IF IsRootAt(path) THEN <<>>
    ELSE IF IsLastAt(path) THEN Glyphs.corner
    ELSE Glyphs.branch

\* C19: render returns a string for every tree built, single node or
\* array, and every glyph set, empty strings included, nothing being
\* refused; the piece of every node is its margin, its connector and its
\* text with the glyphs as given, so that an empty glyph leaves nothing in
\* its place, and with four empty glyphs every line is the text of its node.
C19_AnyGlyphsAreAccepted ==
    /\ (pc = "build" /\ Len(stack) = 1) =>
          \A opts \in OptionsArgs : ENABLED RenderNode(opts)
    /\ pc = "build" =>
          \A opts \in OptionsArgs : ENABLED RenderArray(opts)
    /\ Rendered =>
          LET r == Reading
          IN  /\ r.whole
              /\ output = join(r.chunks, <<NL>>)
              /\ \A i \in 1..Len(r.entries) :
                    r.chunks[i] = Margin(r.entries[i].path)
                                  \o ConnectorAt(r.entries[i].path)
                                  \o r.entries[i].node.text
              /\ options = WithGlyphs(EMPTY_GLYPHS) =>
                    output = join([i \in 1..Len(r.entries) |-> r.entries[i].node.text],
                                  <<NL>>)

\* C19 witness: with an empty corner and an empty vertical bar, a first
\* element keeps its branch, and its child and the last element are
\* rendered as their texts alone.
C19_Witness ==
    /\ Rendered
    /\ options = WithGlyphs(HALF_GLYPHS)
    /\ input = Array(<<parent(<<97>>, <<leaf(<<97>>)>>), leaf(<<97>>)>>)
    /\ output = <<124, 45, 32, 97, 10, 97, 10, 97>>

(***************************************************************************)
(* The claims about the termination of transform.                          *)
(***************************************************************************)
ChildSet(graph, nodes) ==
    UNION { IF IsUndefined(graph[node.kind]) THEN {}
            ELSE {graph[node.kind].array[i] : i \in 1..Len(graph[node.kind].array)} :
            node \in nodes }

\* the nodes reachable from `nodes` through getChildren, themselves included
RECURSIVE Closure(_, _)
Closure(graph, nodes) ==
    IF ChildSet(graph, nodes) \subseteq nodes THEN nodes
    ELSE Closure(graph, nodes \cup ChildSet(graph, nodes))

\* a node reachable from the root is its own descendant
Cyclic ==
    \E node \in Closure(walk.graph, {walk.root}) :
        node \in Closure(walk.graph, ChildSet(walk.graph, {node}))

\* the domain tree that an acyclic graph is, from the node down
RECURSIVE Unfolded(_, _)
Unfolded(graph, node) ==
    IF IsUndefined(graph[node.kind]) THEN [kind |-> node.kind]
    ELSE [kind |-> node.kind,
          children |-> Array([i \in 1..Len(graph[node.kind].array) |->
                                 Unfolded(graph, graph[node.kind].array[i])])]

Walking == pc = "walk"

\* C20: on an acyclic domain transform returns, and returns the whole tree;
\* on a domain where a node reachable through getChildren is its own
\* descendant it never returns, neither a tree cut short nor anything
\* else: nothing looks for the cycle, and the calls go on, nested in one
\* another, through the nodes of the cycle again and again.
C20_ReturnsIffAcyclic ==
    /\ (Walking /\ ~Cyclic) => <>(walk.done)
    /\ [](Walking /\ walk.done /\ ~Cyclic =>
             walk.result = transform(Unfolded(walk.graph, walk.root)))
    /\ [](Walking /\ Cyclic => ~walk.done /\ IsUndefined(walk.result))
    /\ (Walking /\ Cyclic) => <>(Len(walk.frames) = MaxDepth)

\* C20 witness: a node that is its own child, once above a leaf: the leaf
\* is mapped, then the calls for the node are nested to the depth followed.
C20_Witness ==
    /\ Walking
    /\ Cyclic
    /\ walk.graph[<<97>>] = Array(<<[kind |-> <<98>>], [kind |-> <<97>>]>>)
    /\ IsUndefined(walk.graph[<<98>>])
    /\ walk.root = [kind |-> <<97>>]
    /\ Len(walk.frames) = MaxDepth
    /\ \A i \in 1..Len(walk.frames) : walk.frames[i].node.kind = <<97>>
    /\ ~walk.done

(***************************************************************************)
(* The claims about the nodes that render is given.                        *)
(***************************************************************************)
\* the node with every children property that is undefined left out
RECURSIVE WithoutUndefinedChildren(_)
WithoutUndefinedChildren(node) ==
    IF "children" \in DOMAIN node /\ ~IsUndefined(node.children)
    THEN parent(node.text, [i \in 1..Len(node.children.array) |->
                               WithoutUndefinedChildren(node.children.array[i])])
    ELSE leaf(node.text)

\* C22: every node is a leaf or a parent and never both, a parent exactly
\* when it has a children property that is not undefined: leaf(t) is a
\* leaf, parent(t, c) a parent for every c, the empty one included, and a
\* node whose children property is undefined is a leaf; render goes by
\* this alone, rendering such a node as the leaf without the property.
C22_ChildrenPropertyDecides ==
    /\ \A text \in SampleTexts :
          /\ isLeaf(leaf(text)) /\ ~isParent(leaf(text))
          /\ isLeaf([text |-> text, children |-> Undefined])
          /\ ~isParent([text |-> text, children |-> Undefined])
          /\ \A children \in ListsOver(SampleLeaves) :
                isParent(parent(text, children)) /\ ~isLeaf(parent(text, children))
    /\ LET entries == EntriesUnder(Top, <<>>)
       IN  \A i \in 1..Len(entries) :
              LET node == entries[i].node
              IN  /\ isLeaf(node) # isParent(node)
                  /\ isParent(node) <=>
                        ("children" \in DOMAIN node /\ ~IsUndefined(node.children))
    /\ Rendered =>
          output = render(IF isArray(input)
                          THEN Array([i \in 1..Len(input.array) |->
                                         WithoutUndefinedChildren(input.array[i])])
                          ELSE WithoutUndefinedChildren(input),
                          options)

\* C22 witness: a root over a node with an undefined children property
\* and a parent of nothing: both are rendered as their texts.
C22_Witness ==
    /\ Rendered
    /\ options = Undefined
    /\ input = parent(<<97>>, <<[text |-> <<97>>, children |-> Undefined],
                                parent(<<97>>, <<>>)>>)
    /\ isLeaf(input.children.array[1])
    /\ isParent(input.children.array[2])
    /\ output = <<97, 10, 9500, 9472, 32, 97, 10, 9492, 9472, 32, 97>>

\* C23: a text with newlines in it is written as it is: the output is the
\* pieces of the nodes in pre-order, joined by newlines, the piece of a
\* node being its margin, its connector and its whole text, so that what
\* follows a newline of the text starts its line, with nothing before it,
\* and the pieces of the other nodes are what they are for any text.
C23_TextIsWrittenAsItIs ==
    Rendered =>
        LET entries == EntriesUnder(Top, <<>>)
        IN  /\ output = join([i \in 1..Len(entries) |->
                                 Margin(entries[i].path)
                                 \o ConnectorAt(entries[i].path)
                                 \o entries[i].node.text],
                             <<NL>>)
            /\ Len(entries) > 0 =>
                  LET broken[i \in 0..Len(entries)] ==
                          IF i = 0 THEN 0
                          ELSE broken[i - 1] + NewlinesIn(entries[i].node.text)
                  IN  NewlinesIn(output) = Len(entries) - 1 + broken[Len(entries)]

\* C23 witness: "a\nb" over a child "a\nb", before a last element "a": each
\* "b" starts its line, and the child keeps the bar of its parent.
C23_Witness ==
    /\ Rendered
    /\ options = Undefined
    /\ input = Array(<<parent(<<97, 10, 98>>, <<leaf(<<97, 10, 98>>)>>), leaf(<<97>>)>>)
    /\ output = <<9500, 9472, 32, 97, 10, 98, 10,
                  9474, 32, 32, 9492, 9472, 32, 97, 10, 98, 10,
                  9492, 9472, 32, 97>>

\* C28: the rendering of a root that has children is its text, a newline,
\* and the rendering of the array of its children, under any glyphs.
C28_RootBlockIsArrayRendering ==
    (Rendered /\ ~isArray(input) /\ isParent(input) /\ Len(Kids(input)) > 0) =>
        output = input.text \o <<NL>> \o render(Array(Kids(input)), options)

\* C28 witness: a root over a parent of one leaf and a leaf, with the
\* glyphs "|- " and "\_ ".
C28_Witness ==
    /\ Rendered
    /\ options = WithGlyphs(CUSTOM_GLYPHS)
    /\ input = parent(<<97>>, <<parent(<<97>>, <<leaf(<<97>>)>>), leaf(<<97>>)>>)
    /\ render(Array(Kids(input)), options) =
           <<124, 45, 32, 97, 10, 124, 32, 92, 95, 32, 97, 10, 92, 95, 32, 97>>
    /\ output = <<97, 10, 124, 45, 32, 97, 10, 124, 32, 92, 95, 32, 97, 10, 92, 95, 32, 97>>

RECURSIVE ReachableUnder(_)
ReachableUnder(children) ==
    IF Len(children) = 0 THEN <<>>
    ELSE (IF "nodes" \in DOMAIN children[1]
          THEN ReachableUnder(children[1].nodes.array)
          ELSE <<NodeOf(children[1])>>
               \o (IF IsUndefined(getChildren(NodeOf(children[1]))) THEN <<>>
                   ELSE ReachableUnder(getChildren(NodeOf(children[1])).array)))
         \o ReachableUnder(Tail(children))

\* how often the callback was called with the node
TimesCalled(fn, node) ==
    Cardinality({c \in 1..Len(calls) : calls[c].fn = fn /\ calls[c].node = node})

\* transform has run, by itself or within format
Called == pc \in {"transformed", "formatted"}

\* C26: in one run of transform each callback is called once for every
\* domain node reachable through getChildren, as often as the node occurs,
\* and for nothing else: not for a group, not for a named child as a
\* whole, not for a node that is not reachable.
C26_OneCallPerNode ==
    Called =>
        LET reachable == ReachableUnder(DomainTop)
            times(node) == Cardinality({i \in 1..Len(reachable) : reachable[i] = node})
        IN  /\ Len(calls) = 2 * Len(reachable)
            /\ \A i \in 1..Len(reachable) :
                  /\ TimesCalled("getChildren", reachable[i]) = times(reachable[i])
                  /\ TimesCalled("toText", reachable[i]) = times(reachable[i])
            /\ \A c \in 1..Len(calls) :
                  /\ calls[c].fn \in {"getChildren", "toText"}
                  /\ "nodes" \notin DOMAIN calls[c].node
                  /\ "node" \notin DOMAIN calls[c].node
                  /\ \E i \in 1..Len(reachable) : reachable[i] = calls[c].node

\* C26 witness: a node with a named child and a group of one member: three
\* nodes, three calls of each callback.
C26_Witness ==
    /\ pc = "transformed"
    /\ domain = [kind |-> <<97>>,
                 children |-> Array(<<[name |-> Str(<<110>>), node |-> [kind |-> <<98>>]],
                                      [name |-> Str(<<110>>),
                                       nodes |-> Array(<<[kind |-> <<98>>]>>)]>>)]
    /\ Len(calls) = 6
    /\ TimesCalled("getChildren", [kind |-> <<98>>]) = 2
    /\ TimesCalled("toText", domain) = 1

\* what the context holds for the children that getChildren returned
Resolved(returned) ==
    IF IsUndefined(returned) THEN Undefined
    ELSE Array([i \in 1..Len(returned.array) |->
                   IF "nodes" \in DOMAIN returned.array[i] THEN returned.array[i].nodes
                   ELSE NodeOf(returned.array[i])])

\* C27: the callbacks are called in depth-first pre-order: for the k-th
\* node of the pre-order getChildren is the call 2k-1 and toText the call
\* 2k, with a context that holds the children just returned; so the text
\* of a node is there before any callback is called for a descendant, and
\* all the calls for a child and its descendants come before those for
\* its next sibling.
C27_CallsInPreOrder ==
    Called =>
        LET reachable == ReachableUnder(DomainTop)
        IN  /\ Len(calls) = 2 * Len(reachable)
            /\ \A k \in 1..Len(reachable) :
                  /\ calls[2 * k - 1].fn = "getChildren"
                  /\ calls[2 * k - 1].node = reachable[k]
                  /\ calls[2 * k].fn = "toText"
                  /\ calls[2 * k].node = reachable[k]
                  /\ calls[2 * k].context.children = Resolved(calls[2 * k - 1].returned)

\* C27 witness: an array of "b", which has a child "a", and a last element
\* "b": the calls for the child come before those for the last element.
C27_Witness ==
    /\ pc = "transformed"
    /\ domain = Array(<<[kind |-> <<98>>, children |-> Array(<<[kind |-> <<97>>]>>)],
                        [kind |-> <<98>>]>>)
    /\ Len(calls) = 6
    /\ calls[1].node = domain.array[1]
    /\ calls[2].returned = <<35, 48, 32, 98, 91, 49, 93>>
    /\ calls[3].node = [kind |-> <<97>>]
    /\ calls[5].node = [kind |-> <<98>>]

(***************************************************************************)
(* The claims about the shapes of the children.                            *)
(***************************************************************************)
HasStringName(child) ==
    /\ "name" \in DOMAIN child
    /\ "type" \in DOMAIN child.name
    /\ child.name.type = "string"

\* what a child descriptor is, by its shape
ShapeOf(child) ==
    IF HasStringName(child) /\ "nodes" \in DOMAIN child /\ "array" \in DOMAIN child.nodes
    THEN "group"
    ELSE IF HasStringName(child) /\ "node" \in DOMAIN child
    THEN "named child"
    ELSE "bare node"

\* toText was called with the node at the index, under the name, and
\* returned the text
TextAsked(node, index, name, text) ==
    \E c \in 1..Len(calls) :
        /\ calls[c].fn = "toText"
        /\ calls[c].node = node
        /\ calls[c].context.index = index
        /\ calls[c].context.name = name
        /\ calls[c].returned = text

\* C29: a child with a string name and an array of nodes is a group, even
\* with a node beside them; else a child with a string name and a node is
\* a named child; any other child is a bare node, given to the callbacks
\* as it is.  The entry of context.children and the uniform child at the
\* place of a descriptor go by the same shape.
C29_ChildrenGoByShape ==
    (pc = "transformed" /\ ~isArray(domain) /\ "children" \in DOMAIN domain) =>
        /\ isParent(input)
        /\ Len(input.children.array) = Len(domain.children.array)
        /\ calls[2].fn = "toText" /\ calls[2].node = domain
        /\ Len(calls[2].context.children.array) = Len(domain.children.array)
        /\ \A i \in 1..Len(domain.children.array) :
              LET child == domain.children.array[i]
                  node == input.children.array[i]
                  entry == calls[2].context.children.array[i]
              IN  CASE ShapeOf(child) = "group" ->
                          /\ entry = child.nodes
                          /\ isParent(node)
                          /\ node.text = child.name.chars
                          /\ Len(node.children.array) = Len(child.nodes.array)
                          /\ \A c \in 1..Len(calls) : calls[c].node # child
                    [] ShapeOf(child) = "named child" ->
                          /\ entry = child.node
                          /\ TextAsked(child.node, i - 1, child.name, node.text)
                          /\ \A c \in 1..Len(calls) : calls[c].node # child
                    [] OTHER ->
                          /\ entry = child
                          /\ TextAsked(child, i - 1, Undefined, node.text)

\* C29 witness: a child with a name, nodes and a node is a group; one
\* whose name is a number is a bare node.
C29_Witness ==
    /\ pc = "transformed"
    /\ domain = [kind |-> <<97>>,
                 children |-> Array(<<[name |-> Str(<<110>>),
                                       nodes |-> Array(<<[kind |-> <<98>>]>>),
                                       node |-> [kind |-> <<97>>]],
                                      [kind |-> <<97>>,
                                       name |-> [type |-> "number", value |-> 1],
                                       node |-> [kind |-> <<98>>]]>>)]
    /\ input = parent(<<35, 48, 32, 97, 91, 50, 93>>,
                      <<parent(<<110>>, <<leaf(<<35, 48, 32, 98>>)>>),
                        leaf(<<35, 49, 32, 97>>)>>)

(***************************************************************************)
(* The earlier format                                                      *)
(***************************************************************************)
\* the node of a child of the earlier format, and its label (Undefined for
\* a child that is not a pair)
LabeledAs(child) == IF "array" \in DOMAIN child THEN child.array[1] ELSE Undefined

NodeIn(child) == IF "array" \in DOMAIN child THEN child.array[2] ELSE child

RECURSIVE LegacyVisits(_, _)
\* the nodes under a list of children, in pre-order, each with its position
\* among its siblings and its label
LegacyVisits(children, depth) ==
    IF depth = 0 THEN <<>>
    ELSE Flatten([i \in 1..Len(children) |->
            LET node == NodeIn(children[i])
            IN  <<[node |-> node, position |-> i - 1, label |-> LabeledAs(children[i]),
                   root |-> FALSE]>>
                \o (IF "children" \in DOMAIN node
                    THEN LegacyVisits(node.children.array, depth - 1) ELSE <<>>)])

Nodes ==
    IF "array" \in DOMAIN domain THEN LegacyVisits(domain.array, MaxDepth)
    ELSE <<[node |-> domain, position |-> 0, label |-> Undefined, root |-> TRUE]>>
         \o (IF "children" \in DOMAIN domain
             THEN LegacyVisits(domain.children.array, MaxDepth) ELSE <<>>)

FormatNodeCalls == SelectSeq(calls, LAMBDA call : call.fn = "formatNode")

\* C24: the earlier format calls formatNode without an index for the single
\* root, and with the zero-based position among its siblings for every other
\* node, the elements of a top-level array included; a labeled child's label
\* is passed, and a child without a label gets none.
C24_IndexAndLabelOfFormatNode ==
    pc = "legacy formatted" =>
        LET asked == FormatNodeCalls
            nodes == Nodes
        IN  /\ Len(asked) = Len(nodes)
            /\ \A k \in 1..Len(nodes) :
                  /\ asked[k].node = nodes[k].node
                  /\ asked[k].opts.label = nodes[k].label
                  /\ nodes[k].root => "index" \notin DOMAIN asked[k].opts
                  /\ ~nodes[k].root =>
                        /\ "index" \in DOMAIN asked[k].opts
                        /\ asked[k].opts.index = nodes[k].position

\* a single root with a bare child and, second, a labeled one
C24_Witness ==
    /\ pc = "legacy formatted"
    /\ domain = [kind |-> <<98>>,
                 children |-> Array(<<[kind |-> <<97>>],
                                      Array(<<Str(<<110>>), [kind |-> <<98>>]>>)>>)]
    /\ Len(FormatNodeCalls) = 3
    /\ "index" \notin DOMAIN FormatNodeCalls[1].opts
    /\ FormatNodeCalls[3].opts = [label |-> Str(<<110>>), children |-> Undefined, index |-> 1]

RECURSIVE Named(_, _)
\* the same tree for format with a mapping: a labeled child [label, node]
\* becomes the named child {name: label, node}
Named(tree, depth) ==
    IF depth = 0 THEN tree
    ELSE IF "array" \in DOMAIN tree
    THEN IF isLabeledNode(tree)
         THEN [name |-> tree.array[1], node |-> Named(tree.array[2], depth - 1)]
         ELSE Array([i \in 1..Len(tree.array) |-> Named(tree.array[i], depth - 1)])
    ELSE IF "children" \in DOMAIN tree
    THEN [tree EXCEPT !.children = Named(tree.children, depth - 1)]
    ELSE tree

FormatWithMapping == format(Named(domain, 2 * MaxDepth), [kind |-> "object", mapping |-> "mapping"])

\* C25: the earlier format returns the same string as format with a
\* mapping and the default glyphs, for every domain tree (a single root or
\* an array) whose children are bare nodes or labeled ones, formatNode and
\* toText giving the same text for a node under its label or name.
C25_EarlierFormatAgrees ==
    pc = "legacy formatted" => output = FormatWithMapping

====
